---- MODULE Spec2Model ----
(***************************************************************************)
(* Model of backend/server.js of devops-task-manager: an Express process   *)
(* with a pg connection pool, a fire-and-forget schema initializer and     *)
(* three routes (GET /health, GET /api/tasks, POST /api/tasks), together   *)
(* with the PostgreSQL store the statements of the file run against.       *)
(*                                                                         *)
(* A handler that awaits pool.query is two steps: the part before the      *)
(* await (the request is issued and the query handed to the pool) and the  *)
(* part after it (the statement executes at the store, the connection is   *)
(* released and the response is written).                                  *)
(***************************************************************************)
EXTENDS Integers, Sequences, FiniteSets, Bags, TLC

\* ---------------------------------------------------------------- bounds
MaxReq == 2      \* requests in flight at once
MaxId == 2       \* values the SERIAL sequence of tasks.id hands out
MaxClock == 1    \* readings of the store's clock: 0..MaxClock
PoolMax == 2     \* connections the pool owns

\* ------------------------------------------------------ program constants
TitleMax == 255  \* title VARCHAR(255)

\* ------------------------------------------------------------- text values
\* A text value is NULL or n letters followed by sp spaces; only the length
\* and the trailing spaces of a string matter to the statements of the file.
Null == [isNull |-> TRUE, n |-> 0, sp |-> 0]
Str(n, sp) == [isNull |-> FALSE, n |-> n, sp |-> sp]
TextLen(t) == t.n + t.sp

\* The request bodies a client sends: title absent or null, title "", a
\* short title, a title of TitleMax letters and one space, a title of
\* TitleMax + 1 letters; description absent or short. The body with the
\* short title also names an id, completed and a created_at of its own.
Bodies ==
    {[title |-> Null, description |-> Str(1, 0)],
     [title |-> Str(0, 0), description |-> Null],
     [title |-> Str(1, 0), description |-> Str(1, 0),
      id |-> MaxId + 1, completed |-> TRUE, created_at |-> MaxClock + 1],
     [title |-> Str(TitleMax, 1), description |-> Str(1, 0)],
     [title |-> Str(TitleMax + 1, 0), description |-> Null]}

\* --------------------------------------------------------- error messages
ErrConn == "connect ECONNREFUSED"
ErrNoTable == "relation tasks does not exist"
ErrNotNull == "null value in column title violates not-null constraint"
ErrTooLong == "value too long for type character varying(255)"
ErrTerminated == "Connection terminated unexpectedly"

VARIABLES
    storeUp,      \* the store is reachable
    tableExists,  \* the tasks table exists in the store
    rows,         \* the rows of tasks
    nextId,       \* next value of the sequence behind tasks.id
    now,          \* the latest reading of the store's clock
    initPc,       \* the initializer: "issued", "ready" or "failed"
    initRuns,     \* times this process's initializer statement has run
    listening,    \* the HTTP listener accepts requests
    checkedOut,   \* pool connections handed out
    running,      \* the bag of request queries that hold a connection
    pending,      \* request queries waiting for a connection, oldest first
    last,         \* the request answered last, with its response
    log,          \* the creates answered 201: inputs and returned Task
    columns,      \* the columns of the tasks table ({} while it is absent)
    nodeEnv,      \* process.env.NODE_ENV of the running process
    ssl,          \* the ssl option the pool was constructed with
    app           \* the state of the client's App component

vars == <<storeUp, tableExists, rows, nextId, now, initPc, initRuns,
          listening, checkedOut, running, pending, last, log, columns,
          nodeEnv, ssl, app>>

Ids(S) == {r.id : r \in S}

\* -------------------------------------------------------------- responses
NoResp == [status |-> 0, kind |-> "none", error |-> "", rows |-> <<>>]

\* A request in flight: kind, the title and description taken from the body,
\* (before) the ids of the Tasks created by then and (stmts) the number of
\* statements its handler has handed to the pool.
Request(kind, title, description, before) ==
    [kind |-> kind, title |-> title, description |-> description,
     before |-> before, stmts |-> 0]

\* An answered request: the request, the response, and what its statement
\* met at the store (the store's error, the initializer's state, the table).
\* sent counts the responses written: a handler calls res.json once, in the
\* try block or in the catch.
Answered(r, resp, err, init, table) ==
    [kind |-> r.kind, title |-> r.title, description |-> r.description,
     resp |-> resp, storeErr |-> err, initAtExec |-> init,
     tableAtExec |-> table, stmts |-> r.stmts, sent |-> 1]

None ==
    [Answered(Request("none", Null, Null, {}), NoResp, "", "none", TRUE)
        EXCEPT !.sent = 0]

\* ------------------------------------------------------------ the store
\* The columns of CREATE TABLE IF NOT EXISTS tasks (...) in server.js.
TaskColumns == {"id", "title", "description", "completed", "created_at"}

\* The columns of the tasks table the database init script creates.
InitScriptColumns == TaskColumns \cup {"updated_at"}

\* Variant: title TEXT, a column without a length.
VarcharUnbounded(t) == [ok |-> TRUE, value |-> t]

\* Assignment of a text to a VARCHAR(TitleMax) column: a longer value is an
\* error unless all the excess characters are spaces, and then it is cut to
\* the column's length (PostgreSQL, Character Types).
VarcharAssign(t) ==
    IF t.isNull \/ TextLen(t) <= TitleMax
    THEN [ok |-> TRUE, value |-> t]
    ELSE IF t.n <= TitleMax
         THEN [ok |-> TRUE, value |-> Str(t.n, TitleMax - t.n)]
         ELSE [ok |-> FALSE, value |-> t]

\* Variant: CREATE TABLE tasks (...) without IF NOT EXISTS.
createTablesQueryNoIfNotExists ==
    IF ~storeUp
    THEN [ok |-> FALSE, err |-> ErrConn, table |-> tableExists, rows |-> rows,
          columns |-> columns]
    ELSE IF tableExists
         THEN [ok |-> FALSE, err |-> "relation tasks already exists",
               table |-> tableExists, rows |-> rows, columns |-> columns]
         ELSE [ok |-> TRUE, err |-> "", table |-> TRUE, rows |-> rows,
               columns |-> TaskColumns]

\* Variant: DROP TABLE IF EXISTS tasks; CREATE TABLE tasks (...).
createTablesQueryDropsFirst ==
    IF ~storeUp
    THEN [ok |-> FALSE, err |-> ErrConn, table |-> tableExists, rows |-> rows,
          columns |-> columns]
    ELSE [ok |-> TRUE, err |-> "", table |-> TRUE, rows |-> {},
          columns |-> TaskColumns]

\* CREATE TABLE IF NOT EXISTS tasks (...): what the statement does to the
\* store when it reaches it.
createTablesQuery ==
    IF ~storeUp
    THEN [ok |-> FALSE, err |-> ErrConn, table |-> tableExists, rows |-> rows,
          columns |-> columns]
    ELSE [ok |-> TRUE, err |-> "", table |-> TRUE, rows |-> rows,
          columns |-> IF tableExists THEN columns ELSE TaskColumns]

\* Variant: ORDER BY created_at ASC.
OrderByCreatedAtAsc(S) ==
    {s \in [1..Cardinality(S) -> S] :
        /\ \A i, j \in 1..Cardinality(S) : i # j => s[i] # s[j]
        /\ \A i, j \in 1..Cardinality(S) :
              i < j => s[i].created_at <= s[j].created_at}

\* Variant: no ORDER BY, the rows in any order.
OrderUnspecified(S) ==
    {s \in [1..Cardinality(S) -> S] :
        \A i, j \in 1..Cardinality(S) : i # j => s[i] # s[j]}

\* ORDER BY created_at DESC: the orders the store may return the rows S in.
\* Rows with equal created_at come in any order.
OrderByCreatedAtDesc(S) ==
    {s \in [1..Cardinality(S) -> S] :
        /\ \A i, j \in 1..Cardinality(S) : i # j => s[i] # s[j]
        /\ \A i, j \in 1..Cardinality(S) :
              i < j => s[i].created_at >= s[j].created_at}

\* Variant: SELECT * FROM tasks ORDER BY created_at DESC LIMIT 1.
SelectTasksLimit1 ==
    IF ~storeUp
    THEN {[ok |-> FALSE, err |-> ErrConn, rows |-> <<>>]}
    ELSE IF ~tableExists
         THEN {[ok |-> FALSE, err |-> ErrNoTable, rows |-> <<>>]}
         ELSE {[ok |-> TRUE, err |-> "",
                rows |-> IF s = <<>> THEN s ELSE <<s[1]>>] :
                  s \in OrderByCreatedAtDesc(rows)}

\* SELECT * FROM tasks ORDER BY created_at DESC: the possible results.
SelectTasks ==
    IF ~storeUp
    THEN {[ok |-> FALSE, err |-> ErrConn, rows |-> <<>>]}
    ELSE IF ~tableExists
         THEN {[ok |-> FALSE, err |-> ErrNoTable, rows |-> <<>>]}
         ELSE {[ok |-> TRUE, err |-> "", rows |-> s] :
                  s \in OrderByCreatedAtDesc(rows)}

\* Variant: INSERT INTO tasks (title) VALUES ($1), the description dropped.
NewRowNoDescription(title, description, ts) ==
    [id |-> nextId, title |-> VarcharAssign(title).value,
     description |-> Null, completed |-> FALSE, created_at |-> ts]

\* Variant: id INTEGER DEFAULT 1 in place of SERIAL.
NewRowFixedId(title, description, ts) ==
    [id |-> 1, title |-> VarcharAssign(title).value,
     description |-> description, completed |-> FALSE, created_at |-> ts]

\* Variant: completed BOOLEAN DEFAULT TRUE.
NewRowCompleted(title, description, ts) ==
    [id |-> nextId, title |-> VarcharAssign(title).value,
     description |-> description, completed |-> TRUE, created_at |-> ts]

\* The row INSERT INTO tasks (title, description) VALUES ($1, $2) builds at
\* clock reading ts: id from the sequence, completed and created_at from the
\* column defaults.
NewRow(title, description, ts) ==
    LET defaults == [id |-> nextId, title |-> VarcharAssign(title).value,
                     description |-> description, completed |-> FALSE,
                     created_at |-> ts, updated_at |-> ts]
    IN  [c \in columns |-> defaults[c]]

\* Variant: title without NOT NULL.
InsertTaskNullable(title, description, ts) ==
    IF ~storeUp
    THEN [ok |-> FALSE, err |-> ErrConn, rows |-> <<>>, used |-> FALSE]
    ELSE IF ~tableExists
    THEN [ok |-> FALSE, err |-> ErrNoTable, rows |-> <<>>, used |-> FALSE]
    ELSE IF ~VarcharAssign(title).ok
    THEN [ok |-> FALSE, err |-> ErrTooLong, rows |-> <<>>, used |-> TRUE]
    ELSE [ok |-> TRUE, err |-> "",
          rows |-> <<[id |-> nextId, title |-> VarcharAssign(title).value,
                      description |-> description, completed |-> FALSE,
                      created_at |-> ts]>>, used |-> TRUE]

\* INSERT INTO tasks (title, description) VALUES ($1, $2) RETURNING *.
\* used: the statement took a value from the sequence (it does so before
\* the column constraints are checked).
InsertTask(title, description, ts) ==
    IF ~storeUp
    THEN [ok |-> FALSE, err |-> ErrConn, rows |-> <<>>, used |-> FALSE]
    ELSE IF ~tableExists
    THEN [ok |-> FALSE, err |-> ErrNoTable, rows |-> <<>>, used |-> FALSE]
    ELSE IF title.isNull
    THEN [ok |-> FALSE, err |-> ErrNotNull, rows |-> <<>>, used |-> TRUE]
    ELSE IF ~VarcharAssign(title).ok
    THEN [ok |-> FALSE, err |-> ErrTooLong, rows |-> <<>>, used |-> TRUE]
    ELSE [ok |-> TRUE, err |-> "",
          rows |-> <<NewRow(title, description, ts)>>, used |-> TRUE]

\* ------------------------------------------------------------- handlers
\* res.json({ status: 'Backend is running!' })
HealthResponse ==
    [status |-> 200, kind |-> "status", error |-> "", rows |-> <<>>]

\* Variant: the catch answers with a fixed message.
ListResponseOpaque(o) ==
    IF o.ok
    THEN [status |-> 200, kind |-> "array", error |-> "", rows |-> o.rows]
    ELSE [status |-> 500, kind |-> "error", error |-> "Internal Server Error",
          rows |-> <<>>]

\* GET /api/tasks after the await: res.json(result.rows), or the catch.
ListResponse(o) ==
    IF o.ok
    THEN [status |-> 200, kind |-> "array", error |-> "", rows |-> o.rows]
    ELSE [status |-> 500, kind |-> "error", error |-> o.err, rows |-> <<>>]

\* Variant: res.json(result.rows[0]) without status(201).
CreateResponse200(o) ==
    IF o.ok
    THEN [status |-> 200, kind |-> "task", error |-> "", rows |-> <<o.rows[1]>>]
    ELSE [status |-> 500, kind |-> "error", error |-> o.err, rows |-> <<>>]

\* Variant: the handler checks the title after the INSERT and answers 500
\* for an empty one.
CreateResponseChecksAfter(o) ==
    IF o.ok /\ TextLen(o.rows[1].title) > 0
    THEN [status |-> 201, kind |-> "task", error |-> "", rows |-> <<o.rows[1]>>]
    ELSE [status |-> 500, kind |-> "error",
          error |-> IF o.ok THEN "title is required" ELSE o.err,
          rows |-> <<>>]

\* POST /api/tasks after the await: res.status(201).json(result.rows[0]),
\* or the catch.
CreateResponse(o) ==
    IF o.ok
    THEN [status |-> 201, kind |-> "task", error |-> "", rows |-> <<o.rows[1]>>]
    ELSE [status |-> 500, kind |-> "error", error |-> o.err, rows |-> <<>>]

\* ------------------------------------------------------------- the pool
\* The pool has a connection to give.
PoolHasFree == checkedOut < PoolMax

InFlight == BagCardinality(running) + Len(pending)

\* pool.query(...) of a request: the query gets a connection if the pool has
\* one to give, otherwise it waits in the pool's queue.
Query(r) ==
    IF PoolHasFree
    THEN /\ running' = running (+) SetToBag({[r EXCEPT !.stmts = @ + 1]})
         /\ checkedOut' = checkedOut + 1
         /\ pending' = pending
    ELSE /\ running' = running
         /\ checkedOut' = checkedOut
         /\ pending' = Append(pending, [r EXCEPT !.stmts = @ + 1])

\* Variant: a returned connection is not offered to the waiting queries.
ReleaseSkipsQueue(rest) ==
    /\ running' = rest
    /\ pending' = pending
    /\ checkedOut' = checkedOut - 1

\* Variant: pool.connect() and client.query() without client.release().
ReleaseLeaks(rest) ==
    /\ running' = rest
    /\ pending' = pending
    /\ checkedOut' = checkedOut

\* A query has settled and its connection is given back: the oldest waiting
\* query gets it, or the pool has one more to give. rest is the bag of the
\* other queries that hold a connection.
Release(rest) ==
    IF pending # <<>>
    THEN /\ running' = rest (+) SetToBag({Head(pending)})
         /\ pending' = Tail(pending)
         /\ checkedOut' = checkedOut
    ELSE /\ running' = rest
         /\ pending' = pending
         /\ checkedOut' = checkedOut - 1

\* The values of NODE_ENV the process is started with.
NodeEnvs == {"production", "development"}

\* The ssl option of new Pool(...): { rejectUnauthorized: false } in
\* production, false (no TLS at all) otherwise.
PoolSsl(env) ==
    IF env = "production"
    THEN [tls |-> TRUE, rejectUnauthorized |-> FALSE]
    ELSE [tls |-> FALSE, rejectUnauthorized |-> FALSE]

\* ------------------------------------------------------------ the client
\* What the user types into the title field: nothing, a space, a letter.
FormTitles == {Str(0, 0), Str(0, 1), Str(1, 0)}

\* String.prototype.trim on these texts: the trailing spaces go.
Trim(t) == Str(t.n, 0)

\* !newTask.title.trim(): the trimmed title is the empty string.
Blank(t) == TextLen(Trim(t)) = 0

\* The Tasks the server sends to the client.
ClientTasks == {[id |-> i, title |-> Str(1, 0)] : i \in 1..MaxId}

\* The App component after its first render: useState's initial values,
\* and the effect has called fetchTasks, whose GET is in flight. posts are
\* the createTask calls waiting for their POST, each with the newTask and
\* the tasks of the render that called it; event is the handler run last.
AppMounted ==
    [tasks |-> <<>>, newTask |-> [title |-> Str(0, 0), description |-> Str(0, 0)],
     loading |-> TRUE, fetching |-> TRUE, posts |-> <<>>, event |-> "mount"]

\* --------------------------------------------------------------- state
\* Variant: the top-level code without pool.query(createTablesQuery).
StartedNoInit ==
    [initPc |-> "none", initRuns |-> 0, listening |-> FALSE,
     checkedOut |-> 0, running |-> EmptyBag, pending |-> <<>>]

\* The process right after the top-level code of server.js has run: the
\* pool exists, the initializer's query holds the pool's first connection,
\* listen() has been called and no request has been accepted.
Started ==
    [initPc |-> "issued", initRuns |-> 0, listening |-> FALSE,
     checkedOut |-> 1, running |-> EmptyBag, pending |-> <<>>]

\* The state after the top-level code has run with NODE_ENV = env, on a
\* store that has no tasks table yet.
StartedIn(env) ==
    /\ storeUp \in BOOLEAN
    /\ tableExists = FALSE
    /\ rows = {}
    /\ nextId = 1
    /\ now = 0
    /\ last = None
    /\ log = {}
    /\ initPc = Started.initPc
    /\ initRuns = Started.initRuns
    /\ listening = Started.listening
    /\ checkedOut = Started.checkedOut
    /\ running = Started.running
    /\ pending = Started.pending
    /\ columns = {}
    /\ nodeEnv = env
    /\ ssl = PoolSsl(nodeEnv)
    /\ app = AppMounted

\* The deployed server: NODE_ENV is production.
Init == StartedIn("production")

\* The server in either posture.
EnvInit == \E env \in NodeEnvs : StartedIn(env)

\* The three rows of the init script's INSERT INTO tasks (title,
\* description) VALUES ...: one statement, so one clock reading for all of
\* them, and ids 1, 2 and 3 from the sequence.
SampleRows ==
    {[id |-> 1, title |-> Str(20, 0), description |-> Str(49, 0),
      completed |-> FALSE, created_at |-> 0, updated_at |-> 0],
     [id |-> 2, title |-> Str(19, 0), description |-> Str(43, 0),
      completed |-> FALSE, created_at |-> 0, updated_at |-> 0],
     [id |-> 3, title |-> Str(14, 0), description |-> Str(35, 0),
      completed |-> FALSE, created_at |-> 0, updated_at |-> 0]}

\* The server is started on a database the init script has prepared: the
\* table exists with the script's columns and holds the sample rows. The
\* script ran when the database was set up, so the store's clock has moved
\* on since.
InitScriptInit ==
    /\ storeUp \in BOOLEAN
    /\ tableExists = TRUE
    /\ columns = InitScriptColumns
    /\ rows = SampleRows
    /\ nextId = Cardinality(SampleRows) + 1
    /\ now = 1
    /\ last = None
    /\ log = {}
    /\ initPc = Started.initPc
    /\ initRuns = Started.initRuns
    /\ listening = Started.listening
    /\ checkedOut = Started.checkedOut
    /\ running = Started.running
    /\ pending = Started.pending
    /\ nodeEnv = "production"
    /\ ssl = PoolSsl(nodeEnv)
    /\ app = AppMounted

\* --------------------------------------------------------------- actions
\* The store becomes unreachable, or reachable again.
StoreFails ==
    /\ storeUp
    /\ storeUp' = FALSE
    /\ UNCHANGED <<app, columns, nodeEnv, ssl, tableExists, rows, nextId, now, initPc, initRuns,
                   listening, checkedOut, running, pending, last, log>>

StoreRecovers ==
    /\ ~storeUp
    /\ storeUp' = TRUE
    /\ UNCHANGED <<app, columns, nodeEnv, ssl, tableExists, rows, nextId, now, initPc, initRuns,
                   listening, checkedOut, running, pending, last, log>>

\* The process is stopped and started again: requests in flight get no
\* response, the top-level code runs anew in the same environment and
\* against the same store.
Restart ==
    /\ initPc' = Started.initPc
    /\ initRuns' = Started.initRuns
    /\ listening' = Started.listening
    /\ checkedOut' = Started.checkedOut
    /\ running' = Started.running
    /\ pending' = Started.pending
    /\ nodeEnv' = nodeEnv
    /\ ssl' = PoolSsl(nodeEnv')
    /\ UNCHANGED <<storeUp, tableExists, rows, nextId, now, last, log,
                   columns, app>>

\* app.listen's callback: the listener is up.
Listen ==
    /\ ~listening
    /\ listening' = TRUE
    /\ UNCHANGED <<app, columns, nodeEnv, ssl, storeUp, tableExists, rows, nextId, now, initPc, initRuns,
                   checkedOut, running, pending, last, log>>

\* Variant: the catch issues the statement again.
InitSettlesRetries ==
    /\ initPc = "issued"
    /\ initPc' = IF createTablesQuery.ok THEN "ready"
                 ELSE IF initRuns < 1 THEN "issued" ELSE "failed"
    /\ initRuns' = initRuns + 1
    /\ tableExists' = createTablesQuery.table
    /\ rows' = createTablesQuery.rows
    /\ columns' = createTablesQuery.columns
    /\ IF createTablesQuery.ok \/ initRuns >= 1
       THEN Release(running)
       ELSE UNCHANGED <<running, pending, checkedOut>>
    /\ UNCHANGED <<app, nodeEnv, ssl, storeUp, nextId, now, listening, last, log>>

\* pool.query(createTablesQuery) settles: .then logs, .catch logs.
InitSettles ==
    /\ initPc = "issued"
    /\ initPc' = IF createTablesQuery.ok THEN "ready" ELSE "failed"
    /\ initRuns' = initRuns + 1
    /\ tableExists' = createTablesQuery.table
    /\ rows' = createTablesQuery.rows
    /\ columns' = createTablesQuery.columns
    /\ Release(running)
    /\ UNCHANGED <<app, nodeEnv, ssl, storeUp, nextId, now, listening, last, log>>

\* Variant: a health check that asks the store.
GetHealthPingsStore ==
    /\ listening
    /\ last' = Answered(Request("health", Null, Null, {}),
                        IF storeUp THEN HealthResponse
                        ELSE [status |-> 500, kind |-> "error",
                              error |-> ErrConn, rows |-> <<>>],
                        "", initPc, tableExists)
    /\ UNCHANGED <<app, columns, nodeEnv, ssl, storeUp, tableExists, rows, nextId, now, initPc, initRuns,
                   listening, checkedOut, running, pending, log>>

\* GET /health: the whole handler.
GetHealth ==
    /\ listening
    /\ last' = Answered(Request("health", Null, Null, {}), HealthResponse,
                        "", initPc, tableExists)
    /\ UNCHANGED <<app, columns, nodeEnv, ssl, storeUp, tableExists, rows, nextId, now, initPc, initRuns,
                   listening, checkedOut, running, pending, log>>

\* GET /api/tasks up to the await.
GetTasksIssue ==
    /\ listening
    /\ InFlight < MaxReq
    /\ Query(Request("list", Null, Null, {}))
    /\ UNCHANGED <<app, columns, nodeEnv, ssl, storeUp, tableExists, rows, nextId, now, initPc, initRuns,
                   listening, last, log>>

\* Variant: DELETE FROM tasks RETURNING * in place of the SELECT.
GetTasksSettlesConsumes(r) ==
    /\ r.kind = "list"
    /\ \E o \in SelectTasks :
          /\ last' = Answered(r, ListResponse(o), o.err, initPc, tableExists)
          /\ rows' = IF o.ok THEN {} ELSE rows
    /\ Release(running (-) SetToBag({r}))
    /\ UNCHANGED <<app, columns, nodeEnv, ssl, storeUp, tableExists, nextId, now, initPc, initRuns,
                   listening, log>>

\* Variant: the catch answers 500 and the handler goes on to res.json.
GetTasksSettlesFallsThrough(r) ==
    /\ r.kind = "list"
    /\ \E o \in SelectTasks :
          last' = [Answered(r, ListResponse(o), o.err, initPc, tableExists)
                      EXCEPT !.sent = IF o.ok THEN 1 ELSE 2]
    /\ Release(running (-) SetToBag({r}))
    /\ UNCHANGED <<app, columns, nodeEnv, ssl, storeUp, tableExists, rows, nextId, now, initPc, initRuns,
                   listening, log>>

\* Variant: the catch runs the statement once more before it answers.
GetTasksSettlesRetries(r) ==
    /\ r.kind = "list"
    /\ \E o \in SelectTasks :
          IF ~o.ok /\ r.stmts < 2
          THEN /\ running' = (running (-) SetToBag({r}))
                                (+) SetToBag({[r EXCEPT !.stmts = @ + 1]})
               /\ UNCHANGED <<last, pending, checkedOut>>
          ELSE /\ last' = Answered(r, ListResponse(o), o.err, initPc,
                                   tableExists)
               /\ Release(running (-) SetToBag({r}))
    /\ UNCHANGED <<app, columns, nodeEnv, ssl, storeUp, tableExists, rows, nextId, now, initPc, initRuns,
                   listening, log>>

\* GET /api/tasks from the await on.
GetTasksSettles(r) ==
    /\ r.kind = "list"
    /\ \E o \in SelectTasks :
          last' = Answered(r, ListResponse(o), o.err, initPc, tableExists)
    /\ Release(running (-) SetToBag({r}))
    /\ UNCHANGED <<app, columns, nodeEnv, ssl, storeUp, tableExists, rows, nextId, now, initPc, initRuns,
                   listening, log>>

\* The sequence value the first create of the server gets: the init script's
\* rows have taken theirs.
FirstId == IF "updated_at" \in columns THEN Cardinality(SampleRows) + 1 ELSE 1

CreatesInFlight ==
    BagCardinality([r \in {q \in BagToSet(running) : q.kind = "create"}
                       |-> running[r]])
    + Cardinality({k \in 1..Len(pending) : pending[k].kind = "create"})

\* POST /api/tasks up to the await: title and description are taken from
\* the body.
PostTasksIssue(title, description) ==
    /\ listening
    /\ InFlight < MaxReq
    /\ nextId + CreatesInFlight < FirstId + MaxId
    /\ Query(Request("create", title, description, Ids(rows)))
    /\ UNCHANGED <<app, columns, nodeEnv, ssl, storeUp, tableExists, rows, nextId, now, initPc, initRuns,
                   listening, last, log>>

\* Variant: the handler picks the id itself, one more than the largest id
\* it saw before the await, and writes with ON CONFLICT (id) DO UPDATE.
PostTasksSettlesUpsert(r) ==
    /\ r.kind = "create"
    /\ \E ts \in now..MaxClock :
          LET o == InsertTask(r.title, r.description, ts)
              id == IF r.before = {} THEN 1
                    ELSE (CHOOSE m \in r.before : \A x \in r.before : x <= m) + 1
              row == IF o.ok THEN [o.rows[1] EXCEPT !["id"] = id] ELSE <<>>
          IN
          /\ rows' = IF o.ok THEN {x \in rows : x.id # id} \cup {row} ELSE rows
          /\ nextId' = IF o.used THEN nextId + 1 ELSE nextId
          /\ now' = IF o.ok THEN ts ELSE now
          /\ last' = Answered(r, IF o.ok
                                 THEN [CreateResponse(o) EXCEPT !.rows = <<row>>]
                                 ELSE CreateResponse(o),
                              o.err, initPc, tableExists)
          /\ log' = IF o.ok
                    THEN log \cup {[title |-> r.title,
                                    description |-> r.description,
                                    before |-> r.before,
                                    row |-> row]}
                    ELSE log
    /\ Release(running (-) SetToBag({r}))
    /\ UNCHANGED <<app, columns, nodeEnv, ssl, storeUp, tableExists, initPc, initRuns, listening>>

\* POST /api/tasks from the await on. created_at is CURRENT_TIMESTAMP, the
\* store's clock when the statement starts: a reading ts no older than the
\* latest one. The clock has a finite resolution and nothing in the file
\* makes it advance between two statements, so ts may equal the latest
\* reading.
PostTasksSettles(r) ==
    /\ r.kind = "create"
    /\ \E ts \in now..MaxClock :
          LET o == InsertTask(r.title, r.description, ts) IN
          /\ rows' = IF o.ok THEN rows \cup {o.rows[1]} ELSE rows
          /\ nextId' = IF o.used THEN nextId + 1 ELSE nextId
          /\ now' = IF o.ok THEN ts ELSE now
          /\ last' = Answered(r, CreateResponse(o), o.err, initPc, tableExists)
          /\ log' = IF CreateResponse(o).status = 201
                    THEN log \cup {[title |-> r.title,
                                    description |-> r.description,
                                    before |-> r.before,
                                    row |-> CreateResponse(o).rows[1]]}
                    ELSE log
    /\ Release(running (-) SetToBag({r}))
    /\ UNCHANGED <<app, columns, nodeEnv, ssl, storeUp, tableExists, initPc, initRuns, listening>>

\* POST /api/tasks from the await on, when the connection breaks while the
\* statement is in flight: pool.query rejects and the catch answers 500.
\* The store may have run the INSERT before the break (done) or not.
PostTasksConnectionLost(r) ==
    /\ r.kind = "create"
    /\ \E ts \in now..MaxClock, done \in BOOLEAN :
          LET o == InsertTask(r.title, r.description, ts)
              lost == [ok |-> FALSE, err |-> ErrTerminated, rows |-> <<>>,
                       used |-> done]
          IN
          /\ o.ok
          /\ rows' = IF done THEN rows \cup {o.rows[1]} ELSE rows
          /\ nextId' = IF done THEN nextId + 1 ELSE nextId
          /\ now' = IF done THEN ts ELSE now
          /\ last' = Answered(r, CreateResponse(lost), lost.err, initPc,
                              tableExists)
          /\ log' = log
    /\ Release(running (-) SetToBag({r}))
    /\ UNCHANGED <<app, columns, nodeEnv, ssl, storeUp, tableExists, initPc, initRuns, listening>>

Next ==
    \/ StoreFails
    \/ StoreRecovers
    \/ Restart
    \/ Listen
    \/ InitSettles
    \/ GetHealth
    \/ GetTasksIssue
    \/ \E r \in BagToSet(running) : GetTasksSettles(r)
    \/ \E b \in Bodies : PostTasksIssue(b.title, b.description)
    \/ \E r \in BagToSet(running) : PostTasksSettles(r)

Spec == Init /\ [][Next]_vars

\* The server on a network that can break a connection while a statement
\* is in flight.
LossyNext == Next \/ \E r \in BagToSet(running) : PostTasksConnectionLost(r)

LossySpec == Init /\ [][LossyNext]_vars

\* The server started with NODE_ENV set either way.
EnvSpec == EnvInit /\ [][Next]_vars

\* The server on a database prepared by the init script.
InitScriptSpec == InitScriptInit /\ [][Next]_vars

\* ------------------------------------------------------- client actions
serverVars == <<storeUp, tableExists, rows, nextId, now, initPc, initRuns,
                listening, checkedOut, running, pending, last, log, columns,
                nodeEnv, ssl>>

\* fetchTasks from the await on: setTasks(response.data) and
\* setLoading(false), or the catch with setLoading(false) alone.
fetchTasksSettles ==
    /\ app.fetching
    /\ \/ \E data \in {<<>>} \cup {<<t>> : t \in ClientTasks} :
             app' = [app EXCEPT !.tasks = data, !.loading = FALSE,
                                !.fetching = FALSE, !.event = "fetched"]
       \/ app' = [app EXCEPT !.loading = FALSE, !.fetching = FALSE,
                             !.event = "fetchFailed"]
    /\ UNCHANGED serverVars

\* The user edits the form: setNewTask with the typed title.
TypeTitle(title) ==
    /\ app' = [app EXCEPT !.newTask.title = title, !.event = "type"]
    /\ UNCHANGED serverVars

\* Variant: if (!newTask.title) return, without trim().
createTaskNoTrim ==
    /\ Len(app.posts) < MaxReq
    /\ Len(app.tasks) < MaxId
    /\ IF TextLen(app.newTask.title) = 0
       THEN app' = [app EXCEPT !.event = "submit"]
       ELSE app' = [app EXCEPT
                      !.posts = Append(@, [body |-> app.newTask,
                                           tasks |-> app.tasks]),
                      !.event = "submit"]
    /\ UNCHANGED serverVars

\* createTask up to the await: the form is submitted; with a blank title
\* the handler returns, otherwise axios.post sends newTask. The guards keep
\* the POSTs in flight and the displayed list within the bounds.
createTask ==
    /\ Len(app.posts) < MaxReq
    /\ Len(app.tasks) < MaxId
    /\ IF Blank(app.newTask.title)
       THEN app' = [app EXCEPT !.event = "submit"]
       ELSE app' = [app EXCEPT
                      !.posts = Append(@, [body |-> app.newTask,
                                           tasks |-> app.tasks]),
                      !.event = "submit"]
    /\ UNCHANGED serverVars

\* createTask from the await on, for the k-th POST in flight: on a 201
\* setTasks([response.data, ...tasks]) with the tasks of the render that
\* submitted and the form is reset; on a rejection the catch only logs.
createTaskSettles(k) ==
    /\ k \in 1..Len(app.posts)
    /\ LET p == app.posts[k]
           rest == [i \in 1..(Len(app.posts) - 1) |->
                       IF i < k THEN app.posts[i] ELSE app.posts[i + 1]]
       IN \/ \E t \in ClientTasks :
                app' = [app EXCEPT
                          !.tasks = <<t>> \o p.tasks,
                          !.newTask = [title |-> Str(0, 0),
                                       description |-> Str(0, 0)],
                          !.posts = rest, !.event = "posted"]
          \/ app' = [app EXCEPT !.posts = rest, !.event = "postFailed"]
    /\ UNCHANGED serverVars

ClientNext ==
    \/ fetchTasksSettles
    \/ \E title \in FormTitles : TypeTitle(title)
    \/ createTask
    \/ \E k \in 1..MaxReq : createTaskSettles(k)

\* The client alone: the server is what answers its requests.
ClientSpec == Init /\ [][ClientNext]_vars

\* The same under the assumption that the store answers every statement it
\* is sent: a query that holds a connection settles in the end.
FairSpec ==
    /\ Spec
    /\ WF_vars(InitSettles)
    /\ WF_vars(\E r \in BagToSet(running) : GetTasksSettles(r))
    /\ WF_vars(\E r \in BagToSet(running) : PostTasksSettles(r))

\* ================================================================ claims
IsList == last.kind = "list"
IsCreate == last.kind = "create"
IsHealth == last.kind = "health"
Body == last.resp.rows
NonEmpty(t) == ~t.isNull /\ TextLen(t) > 0

\* ------------------------------------------------------------------- C1
\* C1 as stated: after a create with a non-empty title has succeeded, a
\* successful list contains a Task with the create's id whose title and
\* description equal the inputs, and the id is none of the earlier ones.
C1_Original ==
    (IsList /\ last.resp.status = 200) =>
        \A c \in log :
            NonEmpty(c.title) =>
                /\ \E k \in 1..Len(Body) :
                      /\ Body[k].id = c.row.id
                      /\ Body[k].title = c.title
                      /\ Body[k].description = c.description
                /\ c.row.id \notin c.before
                /\ \A c2 \in log : c2 # c => c2.row.id # c.row.id

\* C1 amended: the same for a non-empty title of at most TitleMax
\* characters; a longer title that succeeds is stored without its excess.
C1_CreateThenList ==
    (IsList /\ last.resp.status = 200) =>
        \A c \in log :
            (NonEmpty(c.title) /\ TextLen(c.title) <= TitleMax) =>
                /\ \E k \in 1..Len(Body) :
                      /\ Body[k].id = c.row.id
                      /\ Body[k].title = c.title
                      /\ Body[k].description = c.description
                /\ c.row.id \notin c.before
                /\ \A c2 \in log : c2 # c => c2.row.id # c.row.id

\* A successful list after two creates, the later one with a title within
\* the column's length and issued after the earlier one was answered.
C1_Witness ==
    /\ IsList /\ last.resp.status = 200
    /\ \E c \in log :
          /\ NonEmpty(c.title) /\ TextLen(c.title) <= TitleMax
          /\ ~c.description.isNull
          /\ c.before # {}

\* ------------------------------------------------------------------- C2
\* C2 as stated: if the create of T1 was answered before the create of T2
\* was issued, a successful list places T2 before T1.
C2_Original ==
    (IsList /\ last.resp.status = 200) =>
        \A c \in log : \A k, l \in 1..Len(Body) :
            (Body[k].id = c.row.id /\ Body[l].id \in c.before) => k < l

\* C2 amended: ... places T2 before T1 when the created_at of T2 is strictly
\* newer than that of T1; with equal created_at the order is not fixed.
C2_NewerFirst ==
    (IsList /\ last.resp.status = 200) =>
        \A c \in log : \A k, l \in 1..Len(Body) :
            (/\ Body[k].id = c.row.id
             /\ Body[l].id \in c.before
             /\ Body[k].created_at > Body[l].created_at) => k < l

\* A successful list of two sequential creates with different created_at.
C2_Witness ==
    /\ IsList /\ last.resp.status = 200
    /\ \E c \in log : \E k, l \in 1..Len(Body) :
          /\ Body[k].id = c.row.id
          /\ Body[l].id \in c.before
          /\ Body[k].created_at > Body[l].created_at

\* ------------------------------------------------------------------- C3
\* C3: every successful list result is sorted by created_at descending: of
\* two rows, the one with the strictly newer created_at comes first.
C3_SortedDesc ==
    (IsList /\ last.resp.status = 200) =>
        \A k, l \in 1..Len(Body) :
            Body[k].created_at > Body[l].created_at => k < l

\* A successful list with rows of different created_at.
C3_Witness ==
    /\ IsList /\ last.resp.status = 200
    /\ \E k, l \in 1..Len(Body) : Body[k].created_at # Body[l].created_at

\* ------------------------------------------------------------------- C4
\* The Tasks that creates have returned are the ones a successful list
\* returns.
ListReturnsCreated ==
    (IsList /\ last.resp.status = 200) =>
        \A c \in log : \E k \in 1..Len(Body) : Body[k] = c.row

\* C4 as stated: a successful POST answers 201 with the persisted Task: an
\* integer id, the submitted title, completed false and a created_at; a
\* later list returns that same Task.
C4_Original ==
    /\ (IsCreate /\ last.storeErr = "") =>
          /\ last.resp.status = 201
          /\ Len(Body) = 1
          /\ Body[1] \in rows
          /\ Body[1].id \in 1..MaxId
          /\ Body[1].title = last.title
          /\ Body[1].completed = FALSE
          /\ Body[1].created_at \in 0..MaxClock
    /\ ListReturnsCreated

\* C4 amended: the title is the submitted title when that has at most
\* TitleMax characters; of a longer title that succeeds, the first TitleMax
\* characters (the rest were spaces).
C4_CreatedTask ==
    /\ (IsCreate /\ last.storeErr = "") =>
          /\ last.resp.status = 201
          /\ Len(Body) = 1
          /\ Body[1] \in rows
          /\ Body[1].id \in 1..MaxId
          /\ TextLen(last.title) <= TitleMax => Body[1].title = last.title
          /\ TextLen(last.title) > TitleMax =>
                /\ Body[1].title.n = last.title.n
                /\ TextLen(Body[1].title) = TitleMax
          /\ Body[1].completed = FALSE
          /\ Body[1].created_at \in 0..MaxClock
    /\ ListReturnsCreated

\* A create was answered 201.
C4_Witness ==
    /\ IsCreate /\ last.resp.status = 201
    /\ Body[1].title = last.title

\* ------------------------------------------------------------------- C5
\* C5: a create whose title is absent or NULL is rejected: it is answered
\* with an error, never 201, and the persisted tasks are unchanged.
C5_NullTitleRejected ==
    /\ [](IsCreate /\ last.title.isNull =>
            last.resp.status = 500 /\ last.resp.kind = "error")
    /\ [](\A c \in log : ~c.title.isNull)
    /\ [][(/\ last'.kind = "create"
           /\ last'.title.isNull
           /\ InFlight' < InFlight) => rows' = rows]_vars

\* A create with a NULL title reached the table and was answered.
C5_Witness ==
    /\ IsCreate /\ last.title.isNull
    /\ last.storeErr = ErrNotNull

\* ------------------------------------------------------------------- C6
\* C6: when the store statement of a list or create fails, the response is
\* 500 with body {error: m}, m the store's message; no data is returned.
C6_StoreFailureIs500 ==
    ((IsList \/ IsCreate) /\ last.storeErr # "") =>
        /\ last.resp.status = 500
        /\ last.resp.kind = "error"
        /\ last.resp.error = last.storeErr
        /\ last.resp.rows = <<>>

\* A list was answered after its statement failed with rows in the table.
C6_Witness ==
    /\ IsList /\ last.storeErr = ErrConn
    /\ rows # {}

\* ------------------------------------------------------------------- C7
\* C7: GET /health answers 200 with a status body whatever the state of the
\* store and the initializer, and takes no connection and runs no query.
C7_HealthIndependent ==
    /\ [](IsHealth => last.resp.status = 200 /\ last.resp.kind = "status")
    /\ [][(last' # last /\ last'.kind = "health") =>
             UNCHANGED <<storeUp, tableExists, rows, nextId, now, checkedOut,
                         running, pending>>]_vars

\* Health answered with the store unreachable, no table, the initializer
\* failed and every connection of the pool handed out.
C7_Witness ==
    /\ IsHealth /\ last.resp.status = 200
    /\ ~storeUp /\ ~tableExists
    /\ last.initAtExec = "failed"
    /\ checkedOut = PoolMax

\* ------------------------------------------------------------------- C8
\* C8: the create-table-if-absent statement run when the table exists
\* raises no error and leaves every row unchanged.
C8_EnsureIdempotent ==
    [][(/\ initPc = "issued" /\ initPc' # "issued"
        /\ storeUp /\ tableExists) =>
          /\ initPc' = "ready"
          /\ tableExists'
          /\ rows' = rows
          /\ nextId' = nextId]_vars

\* A new process whose initializer has run, before it has accepted any
\* request, with rows in the table from the process before it.
C8_Witness ==
    /\ initPc = "ready" /\ initRuns = 1
    /\ ~listening
    /\ rows # {}

\* ------------------------------------------------------------------- C9
\* C9 as stated: no list or create statement executes before the
\* schema-ensure statement has completed.
C9_Original ==
    (IsList \/ IsCreate) => last.initAtExec # "issued"

\* C9 amended: the schema-ensure statement is issued before the listener
\* accepts a request, but not awaited: a list or create statement may
\* execute before it completes, and is answered 500 if the table is absent.
C9_EnsureIssuedFirst ==
    /\ (listening \/ InFlight > 0) => initPc \in {"issued", "ready", "failed"}
    /\ (listening \/ InFlight > 0) => (initPc = "issued" <=> initRuns = 0)
    /\ ((IsList \/ IsCreate) /\ last.initAtExec = "issued"
            /\ ~last.tableAtExec) => last.resp.status = 500

\* A list or create statement executed while the ensure was in flight.
C9_Witness ==
    /\ (IsList \/ IsCreate)
    /\ last.initAtExec = "issued"

C11_PersistedStays ==
    /\ \A c \in log : c.row \in rows
    /\ \A r \in rows : \E c \in log : c.row = r

\* Two Tasks persisted by one process are still there in the next one, whose
\* initializer failed.
C11_Witness ==
    /\ Cardinality(log) >= 2
    /\ initPc = "failed" /\ ~listening

\* ------------------------------------------------------------------ C12
\* C12: in every state of the store the persisted Tasks have pairwise
\* distinct ids and a non-null title.
C12_UniqueIdNonNullTitle ==
    /\ \A r1, r2 \in rows : r1 # r2 => r1.id # r2.id
    /\ \A r \in rows : ~r.title.isNull

\* Two Tasks are persisted.
C12_Witness ==
    Cardinality(rows) >= 2

C14_NoEmptyTitle ==
    /\ \A r \in rows : TextLen(r.title) > 0
    /\ (IsCreate /\ last.title = Str(0, 0)) => last.resp.status # 201

\* ------------------------------------------------------------------ C15
\* C15 as stated: no persisted Task has a title longer than TitleMax; a
\* create whose title is longer is answered with an error and persists
\* nothing.
C15_Original ==
    /\ \A r \in rows : TextLen(r.title) <= TitleMax
    /\ (IsCreate /\ TextLen(last.title) > TitleMax) => last.resp.status = 500
    /\ \A c \in log : TextLen(c.title) <= TitleMax

\* C15 amended: no persisted Task has a title longer than TitleMax; a create
\* whose title is longer is answered with an error and persists nothing,
\* unless every character after the first TitleMax is a space: then it is
\* answered 201 and the title is persisted cut to TitleMax characters.
C15_TitleBound ==
    /\ \A r \in rows : TextLen(r.title) <= TitleMax
    /\ (IsCreate /\ last.title.n > TitleMax) => last.resp.status = 500
    /\ \A c \in log : c.title.n <= TitleMax
    /\ \A c \in log :
          TextLen(c.title) > TitleMax =>
              c.row.title = Str(c.title.n, TitleMax - c.title.n)
    /\ \A r \in rows : \E c \in log : c.row = r

\* A create with TitleMax + 1 letters reached the table and was refused,
\* with a Task already persisted.
C15_Witness ==
    /\ IsCreate /\ last.title.n > TitleMax
    /\ last.storeErr = ErrTooLong
    /\ rows # {}

\* ------------------------------------------------------------------ C16
\* C16: a successful list returns the full set: every Task persisted when
\* its statement runs, each once, and nothing else. (No row is added while
\* the list is the request answered last.)
C16_FullSet ==
    (IsList /\ last.resp.status = 200) =>
        /\ Len(Body) = Cardinality(rows)
        /\ {Body[k] : k \in 1..Len(Body)} = rows
        /\ \A k, l \in 1..Len(Body) : k # l => Body[k] # Body[l]

\* A successful list of two persisted Tasks.
C16_Witness ==
    /\ IsList /\ last.resp.status = 200
    /\ Len(Body) >= 2

\* ------------------------------------------------------------------ C17
\* The queries that hold a connection: those of requests and, while it is in
\* flight, the initializer's.
Holding == BagCardinality(running) + (IF initPc = "issued" THEN 1 ELSE 0)

C18_NoRetries ==
    /\ (IsList \/ IsCreate) => last.stmts = 1
    /\ ((IsList \/ IsCreate) /\ last.storeErr # "") =>
          last.resp.status = 500 /\ last.resp.error = last.storeErr
    /\ IsHealth => last.stmts = 0
    /\ \A r \in BagToSet(running) : r.stmts = 1
    /\ \A k \in 1..Len(pending) : pending[k].stmts = 1

\* A create whose statement failed at the store has been answered, and
\* nothing of it is in flight.
C18_Witness ==
    /\ IsCreate /\ last.storeErr = ErrConn
    /\ last.resp.status = 500
    /\ InFlight = 0

CertValidated == ssl.tls /\ ssl.rejectUnauthorized

\* C20: on every connection the pool has handed out, the store's
\* certificate is validated exactly when the process runs in production.
C20_EnvDecidesValidation ==
    checkedOut > 0 => ((nodeEnv = "production") <=> CertValidated)

\* ------------------------------------------------------------------ C21
\* C21: every Task in the response of a create (201) or a list (200) has
\* exactly the five attributes id, title, description, completed and
\* created_at, whichever statement created the tasks table.
C21_FiveAttributes ==
    ((IsList /\ last.resp.status = 200) \/ (IsCreate /\ last.resp.status = 201))
        => \A k \in 1..Len(Body) : DOMAIN Body[k] = TaskColumns

\* ------------------------------------------------------------------ C22
\* Two creates answered 201 were in flight at the same time: neither saw the
\* other's Task when it was issued.
Overlapped(c1, c2) ==
    /\ c1 # c2
    /\ c1.row.id \notin c2.before
    /\ c2.row.id \notin c1.before

\* C22: creates in flight at the same time do not interfere: each one
\* answered 201 has persisted its own Task (its own title and description),
\* the Tasks have distinct ids and both are in the store.
C22_ConcurrentCreates ==
    \A c1, c2 \in log :
        Overlapped(c1, c2) =>
            /\ c1.row.id # c2.row.id
            /\ c1.row \in rows /\ c2.row \in rows
            /\ \A c \in {c1, c2} :
                  /\ c.row.title = VarcharAssign(c.title).value
                  /\ c.row.description = c.description

\* Two creates with different bodies overlapped and both were answered 201.
C22_Witness ==
    \E c1, c2 \in log :
        /\ Overlapped(c1, c2)
        /\ c1.title # c2.title
        /\ c1.row \in rows /\ c2.row \in rows

\* ------------------------------------------------------------------ C23
\* A step that answers a create: one create fewer is in flight and the
\* process is still the same.
CreateAnswered == CreatesInFlight' < CreatesInFlight /\ listening'

\* C23 as stated: a create answered 201 has added exactly one Task, a create
\* answered 500 has added none.
C23_Original ==
    [][CreateAnswered =>
          /\ last'.resp.status = 201 =>
                \E t \in rows' : t \notin rows /\ rows' = rows \cup {t}
          /\ last'.resp.status = 500 => rows' = rows]_vars

\* C23: a create answered 201 has added exactly one Task, the one in the
\* response; a create answered 500 with an error of the store has added
\* none; a create answered 500 because the connection broke while the
\* statement was in flight has added one Task or none.
C23_ResponseAgrees ==
    [][CreateAnswered =>
          /\ last'.kind = "create"
          /\ last'.resp.status \in {201, 500}
          /\ last'.resp.status = 201 =>
                /\ last'.resp.rows[1] \notin rows
                /\ rows' = rows \cup {last'.resp.rows[1]}
          /\ (last'.resp.status = 500 /\ last'.storeErr # ErrTerminated) =>
                rows' = rows
          /\ (last'.resp.status = 500 /\ last'.storeErr = ErrTerminated) =>
                \/ rows' = rows
                \/ \E t \in rows' : t \notin rows /\ rows' = rows \cup {t}]_vars

\* A create was answered 500 for a broken connection and its Task is in the
\* store: the store holds a Task no create has returned.
C23_Witness ==
    /\ IsCreate
    /\ last.resp.status = 500
    /\ last.storeErr = ErrTerminated
    /\ \E t \in rows : t.title = VarcharAssign(last.title).value
                         /\ \A c \in log : c.row # t

\* ------------------------------------------------------------------ C24
\* The request bodies that name an id, completed or created_at themselves.
BodiesWithMore ==
    {b \in Bodies : DOMAIN b \cap {"id", "completed", "created_at"} # {}}

\* C24: whatever the body names besides title and description, a Task
\* created through POST /api/tasks has an id from the sequence (new, below
\* the sequence's next value), a created_at read from the store's clock and
\* completed = false; and every Task in the store has completed = false in
\* every state.
C24_ServerAssigned ==
    /\ \A c \in log :
          /\ c.row.id \in 1..(nextId - 1)
          /\ c.row.id \notin c.before
          /\ c.row.created_at \in 0..now
          /\ c.row.completed = FALSE
          /\ \A b \in BodiesWithMore :
                (b.title = c.title /\ b.description = c.description) =>
                    /\ c.row.id # b.id
                    /\ c.row.completed # b.completed
                    /\ c.row.created_at # b.created_at
    /\ \A r \in rows : r.completed = FALSE

\* A create whose body names id, completed and created_at was answered 201,
\* and a later create was answered while its Task was in the store.
C24_Witness ==
    \E c \in log, b \in BodiesWithMore :
        /\ b.title = c.title /\ b.description = c.description
        /\ c.row \in rows
        /\ \E d \in log : c.row.id \in d.before

\* ------------------------------------------------------------------ C25
\* A step in which the statement of a request settles: the request is no
\* longer in flight and the process is still the same.
RequestSettled == InFlight' < InFlight /\ listening'

\* C25: a request whose statement settles gets exactly one response, a
\* success (200 or 201, no error body) or an error (500 with the error
\* body), never none and never both; GET /health likewise gets one.
C25_OneResponse ==
    /\ [](last.kind \in {"health", "list", "create"} =>
            /\ last.sent = 1
            /\ last.resp.kind \in {"status", "array", "task", "error"}
            /\ (last.resp.kind = "error") <=> (last.resp.status = 500)
            /\ (last.resp.kind = "error") <=> (last.storeErr # ""))
    /\ [][RequestSettled =>
             /\ InFlight' = InFlight - 1
             /\ last'.kind \in {"list", "create"}
             /\ last'.sent = 1
             /\ last'.resp # NoResp]_vars

\* Statements have settled both ways: a request was answered with an error
\* after a create had been answered with its Task.
C25_Witness ==
    /\ last.kind \in {"list", "create"}
    /\ last.resp.kind = "error"
    /\ last.sent = 1
    /\ log # {}
    /\ InFlight = 0

\* ------------------------------------------------------------------ C26
\* A step of a GET /api/tasks (it is issued, or its statement settles) and a
\* step of a GET /health.
ListStep ==
    /\ InFlight' - CreatesInFlight' # InFlight - CreatesInFlight
    /\ listening'
HealthStep == last'.kind = "health" /\ last' # last

\* C26: GET /health and GET /api/tasks leave the store as it is, whether
\* they are answered 200 or 500: the same Tasks with the same fields, the
\* same table and the same sequence.
C26_ReadsLeaveStore ==
    [][(ListStep \/ HealthStep) =>
          UNCHANGED <<rows, tableExists, columns, nextId>>]_vars

\* A list was answered 500 with the
\* created Tasks still in the store.
C26_Witness ==
    /\ IsList
    /\ last.resp.status = 500
    /\ rows # {}
    /\ \A c \in log : c.row \in rows

\* ------------------------------------------------------------------ C27
\* C27: the client never has a POST in flight whose title is empty or only
\* whitespace; submitting the form with such a title sends nothing and
\* leaves the displayed tasks and the form fields as they are; and a POST
\* that fails leaves the displayed tasks as they are.
C27_ClientGuards ==
    /\ [](\A k \in 1..Len(app.posts) : ~Blank(app.posts[k].body.title))
    /\ [][(app'.event = "submit" /\ Blank(app.newTask.title)) =>
             /\ app'.posts = app.posts
             /\ app'.tasks = app.tasks
             /\ app'.newTask = app.newTask]_vars
    /\ [][app'.event = "postFailed" => app'.tasks = app.tasks]_vars

\* The form was submitted with a title of one space while Tasks were on
\* display: nothing was sent.
C27_Witness ==
    /\ app.event = "submit"
    /\ app.newTask.title = Str(0, 1)
    /\ app.tasks # <<>>
    /\ app.posts = <<>>

====
